---- MODULE Spec2Model ----
(***************************************************************************)
(* SweetTech R&D Mate: the two-stage analysis session of the App component *)
(* (handleAnalyze / handleReset and the render guards), the analysis       *)
(* client of services/geminiService (analyzeProductProfile,                *)
(* analyzeProductInsights, extractSources, fileToBase64).                  *)
(*                                                                         *)
(* A response text is a sequence of tokens; JSON values are tagged records.*)
(***************************************************************************)
EXTENDS Integers, Sequences, FiniteSets, TLC

\* ------------------------------------------------------------ bounds
\* accepted starts (invocations of handleAnalyze that pass its guard)
MaxRuns == 3

\* ------------------------------------------------------------ JS values
JNull == [t |-> "null"]
JUndefined == [t |-> "undefined"]
JStr(s) == [t |-> "str", s |-> s]
JObj(m) == [t |-> "obj", m |-> m]
JArr(a) == [t |-> "arr", a |-> a]

\* JavaScript truthiness of a value (null, undefined and "" are falsy)
Truthy(v) ==
    /\ v.t # "null"
    /\ v.t # "undefined"
    /\ ~(v.t = "str" /\ v.s = <<>>)

\* property read data[key]: a TypeError on null/undefined, undefined when absent
GetThrows(v) == v.t \in {"null", "undefined"}

GetProp(v, key) ==
    IF v.t = "obj" /\ key \in DOMAIN v.m THEN v.m[key] ELSE JUndefined

\* object spread of v: own enumerable properties; none for null/undefined
Spread(v) ==
    CASE v.t = "obj" -> v.m
      [] v.t = "str" -> [k \in {<<ToString(i - 1)>> : i \in 1..Len(v.s)} |->
                            JStr(<<v.s[(CHOOSE i \in 1..Len(v.s) : <<ToString(i - 1)>> = k)]>>)]
      [] OTHER -> <<>>

\* object literal: the members of m, then key set to v
SetKey(m, key, v) ==
    [k \in (DOMAIN m) \cup {key} |-> IF k = key THEN v ELSE m[k]]

\* ------------------------------------------------------------ response text
\* the three-backtick code-fence marker, one token
FENCE == "fence"
JSONWORD == "json"
WS == " "

\* replace every fence marker followed by the word json by nothing
RECURSIVE StripFenceJson(_)
StripFenceJson(s) ==
    IF s = <<>> THEN <<>>
    ELSE IF Len(s) >= 2 /\ s[1] = FENCE /\ s[2] = JSONWORD
         THEN StripFenceJson(SubSeq(s, 3, Len(s)))
         ELSE <<s[1]>> \o StripFenceJson(Tail(s))

\* replace every remaining fence marker by nothing
StripFence(s) == SelectSeq(s, LAMBDA c : c # FENCE)

\* str.trim()
RECURSIVE TrimLeft(_)
TrimLeft(s) ==
    IF s # <<>> /\ s[1] = WS THEN TrimLeft(Tail(s)) ELSE s

RECURSIVE TrimRight(_)
TrimRight(s) ==
    IF s # <<>> /\ s[Len(s)] = WS THEN TrimRight(SubSeq(s, 1, Len(s) - 1)) ELSE s

Trim(s) == TrimRight(TrimLeft(s))

\* the cleaning of a response text: both replacements, then trim
CleanText(s) == Trim(StripFence(StripFenceJson(s)))

\* ------------------------------------------------------------ JSON.parse
ParseFail == [ok |-> FALSE, v |-> JUndefined, next |-> 0]

RECURSIVE SkipWs(_, _)
SkipWs(s, i) ==
    IF i <= Len(s) /\ s[i] = WS THEN SkipWs(s, i + 1) ELSE i

\* index of the closing quote of the string whose content starts at i, or 0
RECURSIVE CloseQuote(_, _)
CloseQuote(s, i) ==
    IF i > Len(s) THEN 0
    ELSE IF s[i] = "q" THEN i
    ELSE CloseQuote(s, i + 1)

ParseString(s, i) ==
    IF i > Len(s) \/ s[i] # "q" THEN ParseFail
    ELSE LET j == CloseQuote(s, i + 1)
         IN IF j = 0 THEN ParseFail
            ELSE [ok |-> TRUE, v |-> JStr(SubSeq(s, i + 1, j - 1)), next |-> j + 1]

RECURSIVE ParseValue(_, _)
RECURSIVE ParseMembers(_, _, _)

\* members of an object after "{" or ","; m holds the members read so far
ParseMembers(s, i, m) ==
    LET k == ParseString(s, SkipWs(s, i))
    IN IF ~k.ok THEN ParseFail
       ELSE LET c == SkipWs(s, k.next)
            IN IF c > Len(s) \/ s[c] # ":" THEN ParseFail
               ELSE LET v == ParseValue(s, c + 1)
                    IN IF ~v.ok THEN ParseFail
                       ELSE LET e == SkipWs(s, v.next)
                                m2 == SetKey(m, k.v.s, v.v)
                            IN IF e > Len(s) THEN ParseFail
                               ELSE IF s[e] = "," THEN ParseMembers(s, e + 1, m2)
                               ELSE IF s[e] = "}" THEN [ok |-> TRUE, v |-> JObj(m2), next |-> e + 1]
                               ELSE ParseFail

ParseValue(s, i0) ==
    LET i == SkipWs(s, i0)
    IN IF i > Len(s) THEN ParseFail
       ELSE IF s[i] = "null" THEN [ok |-> TRUE, v |-> JNull, next |-> i + 1]
       ELSE IF s[i] = "q" THEN ParseString(s, i)
       ELSE IF s[i] = "{"
            THEN LET j == SkipWs(s, i + 1)
                 IN IF j <= Len(s) /\ s[j] = "}"
                    THEN [ok |-> TRUE, v |-> JObj(<<>>), next |-> j + 1]
                    ELSE ParseMembers(s, i + 1, <<>>)
       ELSE ParseFail

\* JSON.parse(text): [ok, v]; ok = FALSE is a SyntaxError
JSONParse(s) ==
    LET r == ParseValue(s, 1)
    IN IF r.ok /\ SkipWs(s, r.next) = Len(s) + 1
       THEN [ok |-> TRUE, v |-> r.v]
       ELSE [ok |-> FALSE, v |-> JUndefined]


\* ------------------------------------------------------------ source extraction
\* Array.from(new Set(a)): first occurrences, in order
RECURSIVE Dedup(_)
Dedup(a) ==
    IF a = <<>> THEN <<>>
    ELSE LET init == Dedup(SubSeq(a, 1, Len(a) - 1))
             x == a[Len(a)]
         IN IF \E i \in 1..Len(init) : init[i] = x THEN init ELSE Append(init, x)

\* grounding metadata of a response: absent, a chunk list, or a truthy value
\* that is no array
GAbsent == [k |-> "absent"]
GNotList == [k |-> "notlist"]
GList(c) == [k |-> "list", chunks |-> c]
\* a chunk: a web chunk with a uri, a web chunk without uri, a chunk without
\* web, or null
CWeb(u) == [k |-> "web", uri |-> u]
CNoUri == [k |-> "nouri", uri |-> ""]
CNoWeb == [k |-> "noweb", uri |-> ""]
CNull == [k |-> "null", uri |-> ""]

\* the uris pushed by the forEach callback, chunk by chunk
RECURSIVE PushUris(_)
PushUris(c) ==
    IF c = <<>> THEN <<>>
    ELSE IF c[1].k = "web" /\ c[1].uri # ""
         THEN <<c[1].uri>> \o PushUris(Tail(c))
         ELSE PushUris(Tail(c))

\* chunk.web on a null chunk is a TypeError
ChunkThrows(c) == c.k = "null"

\* extractSources(response): [threw, v]
extractSources(g) ==
    CASE g.k = "absent" -> [threw |-> FALSE, v |-> <<>>]
      [] g.k = "notlist" -> [threw |-> TRUE, v |-> <<>>]
      [] OTHER ->
           IF \E i \in 1..Len(g.chunks) : ChunkThrows(g.chunks[i])
           THEN [threw |-> TRUE, v |-> <<>>]
           ELSE [threw |-> FALSE, v |-> Dedup(PushUris(g.chunks))]

\* ------------------------------------------------------------ analysis client
KProfile == <<"profile">>
KSources == <<"sources">>

\* the try block of analyzeProductProfile on a provider response
\* [net, text, g]: [ok, profile, sources]; ok = FALSE is the rethrown
\* Error("Failed to analyze profile.")
ProfileOutcome(resp) ==
    LET data == JSONParse(CleanText(resp.text))
        src == extractSources(resp.g)
    IN IF resp.net # "ok" \/ ~data.ok \/ src.threw \/ GetThrows(data.v)
       THEN [ok |-> FALSE, profile |-> JUndefined, sources |-> <<>>]
       ELSE [ok |-> TRUE, profile |-> GetProp(data.v, KProfile), sources |-> src.v]

\* the try block of analyzeProductInsights: [ok, insights, sources]; the
\* result is the spread of the parsed data with sources set
InsightsOutcome(resp) ==
    LET data == JSONParse(CleanText(resp.text))
        src == extractSources(resp.g)
    IN IF resp.net # "ok" \/ ~data.ok \/ src.threw
       THEN [ok |-> FALSE, insights |-> JNull, sources |-> <<>>]
       ELSE [ok |-> TRUE,
             insights |-> JObj(SetKey(Spread(data.v), KSources, JArr(src.v))),
             sources |-> src.v]

\* the synchronous head of either client entry point, up to its first await:
\* "config" (credential missing: throws), "encode" (awaits fileToBase64) or
\* "net" (request issued, awaits generateContent)
NoFile == [k |-> "null", type |-> "", data |-> ""]

\* the credential test placed after the media read
ClientBeginReadFirst(key, mediaFile) ==
    IF mediaFile # NoFile THEN "encode"
    ELSE IF ~key THEN "config"
    ELSE "net"

ClientBegin(key, mediaFile) ==
    IF ~key THEN "config"
    ELSE IF mediaFile # NoFile THEN "encode"
    ELSE "net"

ErrKeyProfile == "API Key is missing. Please check your environment configuration."
ErrKeyInsights == "API Key is missing."
ErrProfile == "Failed to analyze profile."
ErrInsights == "Failed to generate insights."
ErrUnknown == "An unknown error occurred"
\* the null of the error state
NoError == "null"


\* ------------------------------------------------------------ inputs
\* In the response texts a profile object is abbreviated to its name and a
\* competitor list to one string: the values stand for complete ones.
Texts == {"", "Choco Bar 50g"}

Files == {[k |-> "file", type |-> "image/png", data |-> "QUJD"]}

TProfile == <<"{", "q", "profile", "q", ":", "{", "q", "name", "q", ":",
              "q", "Choco Bar", "q", "}", "}">>
TFenced == <<FENCE, JSONWORD, WS>> \o TProfile \o <<WS, FENCE>>
TNoProfile == <<"{", "q", "competitors", "q", ":", "q", "c1", "q", "}">>
TNull == <<"null">>
TEmpty == <<>>
TGarbage == <<"Sorry">>

ResponseTexts == {TProfile, TFenced, TNoProfile, TNull, TGarbage, TEmpty}

Groundings ==
    {GAbsent, GNotList,
     GList(<<CWeb("A"), CWeb("B")>>),
     GList(<<CWeb("B"), CWeb("C"), CWeb("B")>>),
     GList(<<CNoWeb, CNoUri>>),
     GList(<<CWeb("A"), CNull>>)}

\* what generateContent can settle with: a rejection, or a response
Responses ==
    {[net |-> "error", text |-> <<>>, g |-> GAbsent]}
    \cup [net : {"ok"}, text : ResponseTexts, g : Groundings]

\* what each client call can settle with: the outcomes of its try block over
\* the responses
ProfileOutcomes == {ProfileOutcome(resp) : resp \in Responses}
InsightsOutcomes == {InsightsOutcome(resp) : resp \in Responses}

\* ------------------------------------------------------------ state
VARIABLES
    input,                \* useState('')
    file,                 \* useState<File | null>(null)
    profileData,          \* useState<ProductProfile | null>(null)
    insightsData,         \* useState<Partial<AnalysisResult> | null>(null)
    allSources,           \* useState<string[]>([])
    isAnalyzingProfile,   \* useState(false)
    isAnalyzingInsights,  \* useState(false)
    error,                \* useState<string | null>(null)
    apiKey,               \* process.env.API_KEY is set
    runs,                 \* the invocations of handleAnalyze that passed its guard:
                          \* pc (where it is suspended), the file it captured,
                          \* its locals profile and profileSources (s1), and the
                          \* requests (reqP, reqI) and media reads it has made
    call,                 \* one call of a client entry point on its own
    view,                 \* one render of CompetitorComparison, or one call of
                          \* its parseValue, on its own
    lastOp                \* what ran last: "analyze", "reset", "edit" (the input
                          \* form), "settle" (a continuation of handleAnalyze) or
                          \* "export" (a data file was produced)

session == <<profileData, insightsData, allSources, isAnalyzingProfile,
             isAnalyzingInsights, error>>
vars == <<input, file, profileData, insightsData, allSources, isAnalyzingProfile,
          isAnalyzingInsights, error, apiKey, runs, call, lastOp, view>>

\* a finished invocation of handleAnalyze: its locals are dead
Done ==
    [pc |-> "done", file |-> NoFile, profile |-> JUndefined, s1 |-> <<>>,
     reqP |-> 0, reqI |-> 0, reads |-> 0]

\* no client call on its own
NoCall ==
    [pc |-> "none", stage |-> "none", file |-> NoFile,
     resp |-> [net |-> "error", text |-> <<>>, g |-> GAbsent],
     reqs |-> 0, reads |-> 0, err |-> NoError,
     value |-> JUndefined, sources |-> <<>>, parts |-> <<>>]

\* no component render on its own
NoView == [pc |-> "none"]

InitSession ==
    /\ input = ""
    /\ file = NoFile
    /\ profileData = JNull
    /\ insightsData = JNull
    /\ allSources = <<>>
    /\ isAnalyzingProfile = FALSE
    /\ isAnalyzingInsights = FALSE
    /\ error = NoError
    /\ apiKey \in BOOLEAN
    /\ runs = <<>>
    /\ lastOp = "init"

Init ==
    /\ InitSession
    /\ call = NoCall
    /\ view = NoView

\* const isIdle = !profileData && !isAnalyzingProfile
isIdle == ~Truthy(profileData) /\ ~isAnalyzingProfile

\* ------------------------------------------------------------ input form
\* textarea onChange, rendered when isIdle
SetInput(t) ==
    /\ isIdle
    /\ input' = t
    /\ lastOp' = "edit"
    /\ UNCHANGED <<file, session, apiKey, runs, call, view>>

\* handleFileChange, its inputs rendered when isIdle
handleFileChange(f) ==
    /\ isIdle
    /\ file' = f
    /\ lastOp' = "edit"
    /\ UNCHANGED <<input, session, apiKey, runs, call, view>>

\* ------------------------------------------------------------ handleAnalyze
\* the guard with the file test inverted
EmptyInputInverted(text, f) == text = "" /\ f # NoFile

\* if (!input && !file) return
EmptyInput(text, f) == text = "" /\ f = NoFile

\* the catch block without the finally block
FailNoFinally(msg) ==
    /\ error' = msg
    /\ UNCHANGED <<isAnalyzingProfile, isAnalyzingInsights>>

\* catch + finally of handleAnalyze
Fail(msg) ==
    /\ error' = msg
    /\ isAnalyzingProfile' = FALSE
    /\ isAnalyzingInsights' = FALSE

\* handleAnalyze without its setIsAnalyzingInsights(false)
handleAnalyzeKeepInsightsFlag ==
    IF EmptyInput(input, file)
    THEN UNCHANGED <<session, runs>>
    ELSE LET b == ClientBegin(apiKey, file)
         IN /\ Len(runs) < MaxRuns
            /\ profileData' = JNull
            /\ insightsData' = JNull
            /\ allSources' = <<>>
            /\ IF b = "config"
               THEN Fail(ErrKeyProfile)
               ELSE /\ isAnalyzingProfile' = TRUE
                    /\ UNCHANGED isAnalyzingInsights
                    /\ error' = NoError
            /\ runs' = Append(runs,
                 IF b = "config" THEN Done
                 ELSE [pc |-> IF b = "encode" THEN "p_encode" ELSE "p_net",
                       file |-> file, profile |-> JUndefined, s1 |-> <<>>,
                       reqP |-> IF b = "net" THEN 1 ELSE 0,
                       reqI |-> 0,
                       reads |-> IF b = "encode" THEN 1 ELSE 0])

\* handleAnalyze from its call to the first suspension: the guard, the state
\* reset and the synchronous head of analyzeProductProfile
handleAnalyze ==
    IF EmptyInput(input, file)
    THEN UNCHANGED <<session, runs>>
    ELSE LET b == ClientBegin(apiKey, file)
         IN /\ Len(runs) < MaxRuns
            /\ profileData' = JNull
            /\ insightsData' = JNull
            /\ allSources' = <<>>
            /\ IF b = "config"
               THEN Fail(ErrKeyProfile)
               ELSE /\ isAnalyzingProfile' = TRUE
                    /\ isAnalyzingInsights' = FALSE
                    /\ error' = NoError
            /\ runs' = Append(runs,
                 LET run == [pc |-> IF b = "encode" THEN "p_encode" ELSE "p_net",
                             file |-> file, profile |-> JUndefined, s1 |-> <<>>,
                             reqP |-> IF b = "net" THEN 1 ELSE 0,
                             reqI |-> 0,
                             reads |-> IF b = "encode" THEN 1 ELSE 0]
                 IN IF b = "config" THEN Done ELSE run)

\* the analyze button, rendered when isIdle
ClickAnalyze ==
    /\ isIdle
    /\ handleAnalyze
    /\ lastOp' = "analyze"
    /\ UNCHANGED <<input, file, apiKey, call, view>>

\* fileToBase64 of stage 1 settles: reader.onerror rejects with an event that
\* is no Error, reader.onload resolves and the request is issued
EncodeProfileDone(r, ok) ==
    /\ runs[r].pc = "p_encode"
    /\ IF ok
       THEN /\ runs' = [runs EXCEPT ![r].pc = "p_net", ![r].reqP = @ + 1]
            /\ UNCHANGED session
       ELSE /\ Fail(ErrUnknown)
            /\ runs' = [runs EXCEPT ![r] = Done]
            /\ UNCHANGED <<profileData, insightsData, allSources>>
    /\ lastOp' = "settle"
    /\ UNCHANGED <<input, file, apiKey, call, view>>

\* a failed profile request sent again
ProfileResponseRetry(r, o) ==
    /\ runs[r].pc = "p_net"
    /\ ~o.ok
    /\ runs' = [runs EXCEPT ![r].reqP = @ + 1]
    /\ lastOp' = "settle"
    /\ UNCHANGED <<input, file, session, apiKey, call, view>>

\* generateContent of stage 1 settles; on success handleAnalyze records the
\* profile and calls analyzeProductInsights up to its first suspension
ProfileResponse(r, o) ==
    /\ runs[r].pc = "p_net"
    /\ LET b == ClientBegin(apiKey, runs[r].file)
       IN IF ~o.ok
          THEN /\ Fail(ErrProfile)
               /\ runs' = [runs EXCEPT ![r] = Done]
               /\ UNCHANGED <<profileData, insightsData, allSources>>
          ELSE /\ profileData' = o.profile
               /\ allSources' = allSources \o o.sources
               /\ IF b = "config"
                  THEN Fail(ErrKeyInsights)
                  ELSE /\ isAnalyzingProfile' = FALSE
                       /\ isAnalyzingInsights' = TRUE
                       /\ UNCHANGED error
               /\ runs' = [runs EXCEPT ![r] =
                    IF b = "config" THEN Done
                    ELSE [@ EXCEPT
                            !.pc = IF b = "encode" THEN "i_encode" ELSE "i_net",
                            !.profile = o.profile,
                            !.s1 = o.sources,
                            !.reqI = IF b = "net" THEN @ + 1 ELSE @,
                            !.reads = IF b = "encode" THEN @ + 1 ELSE @]]
               /\ UNCHANGED insightsData
    /\ lastOp' = "settle"
    /\ UNCHANGED <<input, file, apiKey, call, view>>

\* fileToBase64 of stage 2 settles
EncodeInsightsDone(r, ok) ==
    /\ runs[r].pc = "i_encode"
    /\ IF ok
       THEN /\ runs' = [runs EXCEPT ![r].pc = "i_net", ![r].reqI = @ + 1]
            /\ UNCHANGED session
       ELSE /\ Fail(ErrUnknown)
            /\ runs' = [runs EXCEPT ![r] = Done]
            /\ UNCHANGED <<profileData, insightsData, allSources>>
    /\ lastOp' = "settle"
    /\ UNCHANGED <<input, file, apiKey, call, view>>

\* the success path of stage 2 without the finally block
InsightsResponseNoFinally(r, o) ==
    /\ runs[r].pc = "i_net"
    /\ IF ~o.ok
       THEN /\ Fail(ErrInsights)
            /\ UNCHANGED <<profileData, insightsData, allSources>>
       ELSE /\ insightsData' = o.insights
            /\ allSources' =
                 IF Truthy(GetProp(o.insights, KSources))
                 THEN Dedup(allSources \o GetProp(o.insights, KSources).a)
                 ELSE allSources
            /\ UNCHANGED <<profileData, error, isAnalyzingProfile, isAnalyzingInsights>>
    /\ runs' = [runs EXCEPT ![r] = Done]
    /\ lastOp' = "settle"
    /\ UNCHANGED <<input, file, apiKey, call, view>>

\* generateContent of stage 2 settles
InsightsResponse(r, o) ==
    /\ runs[r].pc = "i_net"
    /\ IF ~o.ok
       THEN /\ Fail(ErrInsights)
            /\ runs' = [runs EXCEPT ![r] = Done]
            /\ UNCHANGED <<profileData, insightsData, allSources>>
       ELSE /\ insightsData' = o.insights
            /\ allSources' =
                 IF Truthy(GetProp(o.insights, KSources))
                 THEN Dedup(allSources \o GetProp(o.insights, KSources).a)
                 ELSE allSources
            /\ isAnalyzingProfile' = FALSE
            /\ isAnalyzingInsights' = FALSE
            /\ runs' = [runs EXCEPT ![r] = Done]
            /\ UNCHANGED <<profileData, error>>
    /\ lastOp' = "settle"
    /\ UNCHANGED <<input, file, apiKey, call, view>>

\* ------------------------------------------------------------ handleReset
handleReset ==
    /\ profileData' = JNull
    /\ insightsData' = JNull
    /\ input' = ""
    /\ file' = NoFile
    /\ allSources' = <<>>
    /\ UNCHANGED <<isAnalyzingProfile, isAnalyzingInsights, error>>

\* the New Analysis button, rendered when profileData is truthy
ClickReset ==
    /\ Truthy(profileData)
    /\ handleReset
    /\ lastOp' = "reset"
    /\ UNCHANGED <<apiKey, runs, call, view>>

\* ------------------------------------------------------------ handleExportTxt
\* the record handed to JSON.stringify:
\* { profile: profileData, ...insightsData, sources: allSources }
FullData(p, ins, src) ==
    LET sp == Spread(ins)
        merged == [k \in {KProfile} \cup DOMAIN sp |->
                      IF k \in DOMAIN sp THEN sp[k] ELSE p]
    IN JObj(SetKey(merged, KSources, JArr(src)))

\* the record of the data file produced from the current session
ExportRecord == FullData(profileData, insightsData, allSources)

handleExportTxt ==
    IF ~Truthy(profileData)
    THEN UNCHANGED lastOp
    ELSE lastOp' = "export"

\* the TXT button of the results view, rendered when profileData is truthy
ClickExport ==
    /\ Truthy(profileData)
    /\ handleExportTxt
    /\ UNCHANGED <<input, file, session, apiKey, runs, call, view>>

Next ==
    \/ \E t \in Texts : SetInput(t)
    \/ \E f \in Files : handleFileChange(f)
    \/ ClickAnalyze
    \/ ClickReset
    \/ \E r \in 1..Len(runs), ok \in BOOLEAN : EncodeProfileDone(r, ok)
    \/ \E r \in 1..Len(runs), o \in ProfileOutcomes : ProfileResponse(r, o)
    \/ \E r \in 1..Len(runs), ok \in BOOLEAN : EncodeInsightsDone(r, ok)
    \/ \E r \in 1..Len(runs), o \in InsightsOutcomes : InsightsResponse(r, o)

Spec == Init /\ [][Next]_vars

\* ------------------------------------------------------------ settling
\* The session with every pending read and request settling. The browser
\* fires load or error for every read, and every issued request is taken to
\* resolve or reject, so each invocation's continuation is eventually run.
\* The responses are a rejection, a profile and an object without profile,
\* each with one citation list.
LiveResponses ==
    {[net |-> "error", text |-> <<>>, g |-> GAbsent]}
    \cup [net : {"ok"}, text : {TProfile, TNoProfile},
          g : {GList(<<CWeb("A"), CWeb("B")>>)}]

LiveProfileOutcomes == {ProfileOutcome(rs) : rs \in LiveResponses}
LiveInsightsOutcomes == {InsightsOutcome(rs) : rs \in LiveResponses}

\* the pending media read or request of invocation r settles
Settle(r) ==
    /\ r \in 1..Len(runs)
    /\ \/ \E ok \in BOOLEAN : EncodeProfileDone(r, ok)
       \/ \E o \in LiveProfileOutcomes : ProfileResponse(r, o)
       \/ \E ok \in BOOLEAN : EncodeInsightsDone(r, ok)
       \/ \E o \in LiveInsightsOutcomes : InsightsResponse(r, o)

NextLive ==
    \/ \E t \in Texts : SetInput(t)
    \/ \E f \in Files : handleFileChange(f)
    \/ ClickAnalyze
    \/ ClickReset
    \/ \E r \in 1..MaxRuns : Settle(r)

SpecLive == Init /\ [][NextLive]_vars /\ \A r \in 1..MaxRuns : WF_vars(Settle(r))

\* ------------------------------------------------------------ the client alone
\* One call of analyzeProductProfile or analyzeProductInsights with the
\* credential, the media file and the provider's response drawn from the
\* input sets; the session is not involved.
\* media files: one of an unknown type (file.type is empty) and an empty one
\* (its data URL has nothing after the comma)
ClientFiles ==
    Files \cup {[k |-> "file", type |-> "", data |-> "QUJD"],
                [k |-> "file", type |-> "image/png", data |-> ""]}

\* fileToBase64: the part of the data URL after the comma
fileToBase64(f) == f.data

\* the content parts of a request: the prompt text, then the inline media
\* if (base64Data && mimeType); both are null ("" here) without a media file
RequestParts(base64Data, mimeType) ==
    <<[k |-> "text", mimeType |-> "", data |-> ""]>>
    \o (IF base64Data # "" /\ mimeType # ""
        THEN <<[k |-> "inlineData", mimeType |-> mimeType, data |-> base64Data]>>
        ELSE <<>>)

\* a response text whose JSON string value holds a code-fence marker, bare
\* and inside a fenced block
TFenceInString == <<"{", "q", "profile", "q", ":", "{", "q", "name", "q", ":",
                    "q", "see ", FENCE, "code", "q", "}", "}">>
TFencedFenceInString == <<FENCE, JSONWORD, WS>> \o TFenceInString \o <<WS, FENCE>>

ClientResponses ==
    Responses
    \cup [net : {"ok"}, text : {TFenceInString, TFencedFenceInString},
          g : {GAbsent, GList(<<CWeb("A"), CWeb("B")>>)}]

InitClient ==
    /\ InitSession
    /\ call \in {[NoCall EXCEPT !.pc = "called", !.stage = st, !.file = f, !.resp = rs] :
                    st \in {"profile", "insights"}, f \in ClientFiles \cup {NoFile},
                    rs \in ClientResponses}
    /\ view = NoView

\* the head of the entry point, up to its first await
CallBegin ==
    /\ call.pc = "called"
    /\ LET b == ClientBegin(apiKey, call.file)
       IN call' = CASE b = "config" ->
                       [call EXCEPT !.pc = "thrown",
                                    !.err = IF call.stage = "profile"
                                            THEN ErrKeyProfile ELSE ErrKeyInsights]
                    [] b = "encode" -> [call EXCEPT !.pc = "encode", !.reads = @ + 1]
                    [] OTHER -> [call EXCEPT !.pc = "net", !.reqs = @ + 1,
                                             !.parts = RequestParts("", "")]
    /\ UNCHANGED <<input, file, session, apiKey, runs, lastOp, view>>

\* fileToBase64 settles; its rejection leaves the entry point as it is
CallEncoded(ok) ==
    /\ call.pc = "encode"
    /\ call' = IF ok
               THEN [call EXCEPT !.pc = "net", !.reqs = @ + 1,
                                 !.parts = RequestParts(fileToBase64(call.file),
                                                        call.file.type)]
               ELSE [call EXCEPT !.pc = "thrown", !.err = ErrUnknown]
    /\ UNCHANGED <<input, file, session, apiKey, runs, lastOp, view>>

\* generateContent settles with call.resp; the try block runs
CallSettled ==
    /\ call.pc = "net"
    /\ call' = IF call.stage = "profile"
               THEN LET o == ProfileOutcome(call.resp)
                    IN IF o.ok
                       THEN [call EXCEPT !.pc = "returned", !.value = o.profile,
                                         !.sources = o.sources]
                       ELSE [call EXCEPT !.pc = "thrown", !.err = ErrProfile]
               ELSE LET o == InsightsOutcome(call.resp)
                    IN IF o.ok
                       THEN [call EXCEPT !.pc = "returned", !.value = o.insights,
                                         !.sources = o.sources]
                       ELSE [call EXCEPT !.pc = "thrown", !.err = ErrInsights]
    /\ UNCHANGED <<input, file, session, apiKey, runs, lastOp, view>>

NextClient ==
    \/ CallBegin
    \/ \E ok \in BOOLEAN : CallEncoded(ok)
    \/ CallSettled

SpecClient == InitClient /\ [][NextClient]_vars


\* ------------------------------------------------------------ the session with no credential
\* The session and one client call when process.env.API_KEY is not set: the
\* handlers that can run then, and the head of a client call.
InitNoKey ==
    /\ InitSession
    /\ apiKey = FALSE
    /\ call \in {[NoCall EXCEPT !.pc = "called", !.stage = st, !.file = f] :
                    st \in {"profile", "insights"}, f \in Files \cup {NoFile}}
    /\ view = NoView

NextNoKey ==
    \/ \E t \in Texts : SetInput(t)
    \/ \E f \in Files : handleFileChange(f)
    \/ ClickAnalyze
    \/ CallBegin

SpecNoKey == InitNoKey /\ [][NextNoKey]_vars

\* ------------------------------------------------------------ the session with export
\* The session driven by well-formed responses (a profile object, citation
\* lists) that describe one of two products, with the data export; a stage-2
\* response may carry a "profile" member of its own.
TProfile2 == <<"{", "q", "profile", "q", ":", "{", "q", "name", "q", ":",
               "q", "Mint Drop", "q", "}", "}">>

ExportResponses ==
    {[net |-> "error", text |-> <<>>, g |-> GAbsent]}
    \cup [net : {"ok"}, text : {TProfile, TProfile2, TFenced},
          g : {GAbsent, GList(<<CWeb("A"), CWeb("B")>>),
               GList(<<CWeb("B"), CWeb("C"), CWeb("B")>>)}]

\* what the two client calls can settle with over these responses
ExportProfileOutcomes == {ProfileOutcome(rs) : rs \in ExportResponses}
ExportInsightsOutcomes == {InsightsOutcome(rs) : rs \in ExportResponses}

\* the handlers of one session up to its export: no media, no reset
NextExport ==
    \/ \E t \in Texts : SetInput(t)
    \/ ClickAnalyze
    \/ ClickExport
    \/ \E r \in 1..Len(runs), o \in ExportProfileOutcomes : ProfileResponse(r, o)
    \/ \E r \in 1..Len(runs), o \in ExportInsightsOutcomes : InsightsResponse(r, o)

SpecExport == Init /\ [][NextExport]_vars

\* ------------------------------------------------------------ CompetitorComparison
\* Texts are sequences of characters. A number is [nan, v]: v counts units
\* of 10^-MaxText, which holds every decimal a text of the bounded length
\* can spell; NaN is the not-a-number value.
MaxText == 3
MaxCompetitors == 2

RECURSIVE Pow10(_)
Pow10(n) == IF n = 0 THEN 1 ELSE 10 * Pow10(n - 1)

Scale == Pow10(MaxText)
Num(v) == [nan |-> FALSE, v |-> v]
NaN == [nan |-> TRUE, v |-> 0]

Digits == {"0", "1", "2"}
DigitVal(c) == CASE c = "0" -> 0 [] c = "1" -> 1 [] c = "2" -> 2
Chars == Digits \cup {".", "a"}

\* the longest prefix of s made of characters of set cs
RECURSIVE TakeWhile(_, _)
TakeWhile(s, cs) ==
    IF s # <<>> /\ s[1] \in cs THEN <<s[1]>> \o TakeWhile(Tail(s), cs) ELSE <<>>

\* str.match of the pattern of one or more digits or dots: the first run, or
\* the empty sequence for null (no match)
RECURSIVE FirstRun(_)
FirstRun(s) ==
    IF s = <<>> THEN <<>>
    ELSE IF s[1] \in Digits \cup {"."} THEN TakeWhile(s, Digits \cup {"."})
    ELSE FirstRun(Tail(s))

\* the integer spelled by a digit sequence
RECURSIVE DigitsVal(_)
DigitsVal(d) ==
    IF d = <<>> THEN 0
    ELSE 10 * DigitsVal(SubSeq(d, 1, Len(d) - 1)) + DigitVal(d[Len(d)])

\* parseFloat on a run of digits and dots: the longest prefix that is a
\* decimal literal (digits, then at most one dot and digits); NaN when that
\* prefix holds no digit
parseFloat(run) ==
    LET ip == TakeWhile(run, Digits)
        rest == SubSeq(run, Len(ip) + 1, Len(run))
        fp == IF rest # <<>> /\ rest[1] = "." THEN TakeWhile(Tail(rest), Digits) ELSE <<>>
    IN IF ip = <<>> /\ fp = <<>> THEN NaN
       ELSE Num(DigitsVal(ip) * Scale + DigitsVal(fp) * Pow10(MaxText - Len(fp)))

\* parseValue(str): str is a string value or undefined
parseValue(str) ==
    IF ~Truthy(str) THEN Num(0)
    ELSE LET match == FirstRun(str.s)
         IN IF match # <<>> THEN parseFloat(match) ELSE Num(0)

\* a || b
Or(a, b) == IF Truthy(a) THEN a ELSE b

\* a product as the metrics read it: price, pricePer100g, specs?.energy and
\* the members of nutrition (undefined when nutrition is absent)
Prod(price, per100, energy, specsEnergy, sugar, fat) ==
    [price |-> price, pricePer100g |-> per100, nutritionEnergy |-> energy,
     specsEnergy |-> specsEnergy, nutritionSugar |-> sugar, nutritionFat |-> fat]

MetricKeys == {"price", "energy", "sugar", "fat"}

\* metric.getValue(p)
getValue(key, p) ==
    CASE key = "price" -> parseValue(Or(p.price, p.pricePer100g))
      [] key = "energy" -> parseValue(Or(p.nutritionEnergy, p.specsEnergy))
      [] key = "sugar" -> parseValue(p.nutritionSugar)
      [] key = "fat" -> parseValue(p.nutritionFat)

\* [main profile, ...competitors]
allProducts(profile, competitors) == <<profile>> \o competitors

\* Math.max(...vals): NaN when any argument is NaN
MathMax(vals) ==
    IF \E i \in 1..Len(vals) : vals[i].nan THEN NaN
    ELSE Num(CHOOSE m \in {vals[i].v : i \in 1..Len(vals)} :
                 \A i \in 1..Len(vals) : vals[i].v <= m)

RECURSIVE GCD(_, _)
GCD(a, b) == IF b = 0 THEN a ELSE GCD(b, a % b)

\* the fraction a/b (b > 0) in lowest terms
Frac(a, b) == LET g == GCD(a, b) IN [nan |-> FALSE, n |-> a \div g, d |-> b \div g]

\* maxValue > 0 ? (val / maxValue) * 100 : 0, as the exact fraction n/d
percent(val, maxValue) ==
    IF ~maxValue.nan /\ maxValue.v > 0
    THEN IF val.nan THEN [nan |-> TRUE, n |-> 0, d |-> 1]
         ELSE LET q == Frac(val.v, maxValue.v) IN Frac(100 * q.n, q.d)
    ELSE [nan |-> FALSE, n |-> 0, d |-> 1]

\* one metric row: the values, their maximum and the bar widths
MetricRow(key, products) ==
    LET vals == [i \in 1..Len(products) |-> getValue(key, products[i])]
        maxValue == MathMax(vals)
    IN [vals |-> vals, maxValue |-> maxValue,
        percents |-> [i \in 1..Len(products) |-> percent(vals[i], maxValue)]]

\* every text of at most MaxText characters, and undefined
Strings == UNION {[1..n -> Chars] : n \in 0..MaxText}
ParseInputs == {JUndefined} \cup {JStr(str) : str \in Strings}

\* one call of parseValue on its own
InitParse ==
    /\ InitSession
    /\ apiKey = TRUE
    /\ call = NoCall
    /\ view \in {[pc |-> "called", str |-> str, out |-> Num(0)] : str \in ParseInputs}

ParseValueCall ==
    /\ view.pc = "called"
    /\ view' = [view EXCEPT !.pc = "returned", !.out = parseValue(view.str)]
    /\ UNCHANGED <<input, file, session, apiKey, runs, call, lastOp>>

NextParse == ParseValueCall

SpecParse == InitParse /\ [][NextParse]_vars

\* value texts of products: 10, 20, 0, a word, a text whose first run of
\* digits and dots is a lone dot before its number, the empty text, undefined
S10 == JStr(<<"1", "0">>)
S20 == JStr(<<"2", "0">>)
S0 == JStr(<<"0">>)
SWord == JStr(<<"a">>)
SDot == JStr(<<".", "a", "2">>)
SEmpty == JStr(<<>>)

Products ==
    {Prod(S10, JUndefined, S20, JUndefined, S10, S0),
     Prod(JUndefined, S20, JUndefined, S10, JUndefined, JUndefined),
     Prod(S0, JUndefined, S0, JUndefined, S0, S0),
     Prod(SWord, JUndefined, JUndefined, JUndefined, SWord, JUndefined),
     Prod(SDot, JUndefined, SDot, JUndefined, S20, SDot),
     Prod(SEmpty, S10, SEmpty, S20, SEmpty, SEmpty)}

\* one render of the component on its own: the props, then the metric rows
InitCompare ==
    /\ InitSession
    /\ apiKey = TRUE
    /\ call = NoCall
    /\ view \in {[pc |-> "mounted", products |-> allProducts(p, cs), rows |-> <<>>] :
                    p \in Products,
                    cs \in UNION {[1..n -> Products] : n \in 0..MaxCompetitors}}

Render ==
    /\ view.pc = "mounted"
    /\ view' = [view EXCEPT !.pc = "rendered",
                            !.rows = [k \in MetricKeys |-> MetricRow(k, view.products)]]
    /\ UNCHANGED <<input, file, session, apiKey, runs, call, lastOp>>

NextCompare == Render

SpecCompare == InitCompare /\ [][NextCompare]_vars

\* ------------------------------------------------------------ properties
Live(r) == runs[r].pc # "done"
RequestPending(r) == runs[r].pc \in {"p_net", "i_net"}
InStage1(r) == runs[r].pc \in {"p_encode", "p_net"}
InStage2(r) == runs[r].pc \in {"i_encode", "i_net"}
Elems(a) == {a[i] : i \in 1..Len(a)}
NoDuplicates(a) == \A i, j \in 1..Len(a) : a[i] = a[j] => i = j

\* C1: at most one analysis sequence is in flight: a start is accepted only
\* when no profile or insights request of an earlier sequence is pending. Stated for a start
\* from a session that shows no profile, no insights and no error (as after
\* reset and new input), the case the claim singles out.
C1_NoStartWhilePending ==
    [][(/\ Len(runs') = Len(runs) + 1
        /\ profileData = JNull /\ insightsData = JNull /\ error = NoError)
       => \A r \in 1..Len(runs) : ~RequestPending(r)]_vars

\* a step in which stage 1 of invocation r fails (encoding, network, parse)
Stage1Fails(r) == InStage1(r) /\ runs'[r].pc = "done"
\* a step in which a start fails at once on the missing credential
StartFails == Len(runs') = Len(runs) + 1 /\ runs'[Len(runs')].pc = "done"

\* C2: every stage-1 failure leaves the session Errored: error set, profile
\* null, both loading flags false, and no insights request made by that start.
C2_Stage1FailureErrored ==
    [][/\ \A r \in 1..Len(runs) :
            Stage1Fails(r) =>
                /\ error' # NoError
                /\ profileData' = JNull
                /\ ~isAnalyzingProfile' /\ ~isAnalyzingInsights'
                /\ runs[r].reqI = 0
       /\ StartFails =>
                /\ error' # NoError
                /\ profileData' = JNull
                /\ ~isAnalyzingProfile' /\ ~isAnalyzingInsights']_vars

\* C3: a stage-1 response without a "profile" key is a failure: the session
\* never records an absent (undefined) profile and stage 2 is never started
\* with one.
C3_NoAbsentProfile ==
    /\ profileData # JUndefined
    /\ \A r \in 1..Len(runs) : InStage2(r) => runs[r].profile # JUndefined

\* a step in which stage 1 of invocation r succeeds
Stage1Succeeds(r) == runs[r].pc = "p_net" /\ runs'[r].pc \in {"i_encode", "i_net"}

\* C4: right after a stage-1 success the session holds a non-null profile,
\* exactly the sources stage 1 returned, profile-loading false and
\* insights-loading true (the step itself enters stage 2).
C4_Stage1SuccessState ==
    [][\A r \in 1..Len(runs) :
          Stage1Succeeds(r) =>
              /\ profileData' \notin {JNull, JUndefined}
              /\ Elems(allSources') = Elems(runs'[r].s1)
              /\ ~isAnalyzingProfile'
              /\ isAnalyzingInsights']_vars

\* a step in which stage 2 of invocation r fails
Stage2Fails(r) ==
    \/ EncodeInsightsDone(r, FALSE)
    \/ \E o \in InsightsOutcomes : ~o.ok /\ InsightsResponse(r, o)

\* C5: a stage-2 failure leaves the session Errored with the profile and the
\* sources that stage 1 recorded, unchanged.
C5_Stage2FailureKeepsProfile ==
    [][\A r \in 1..Len(runs) :
          Stage2Fails(r) =>
              /\ error' # NoError
              /\ ~isAnalyzingProfile' /\ ~isAnalyzingInsights'
              /\ profileData' = runs[r].profile
              /\ allSources' = runs[r].s1]_vars

\* C6: right after reset every field is cleared: profile, insights, sources,
\* input text, media, error and both loading flags.
C6_ResetClearsAll ==
    lastOp = "reset" =>
        /\ profileData = JNull
        /\ insightsData = JNull
        /\ allSources = <<>>
        /\ input = ""
        /\ file = NoFile
        /\ error = NoError
        /\ ~isAnalyzingProfile
        /\ ~isAnalyzingInsights

\* C7: when stage 1 returned S1 and stage 2 returns S2, the session source
\* list at completion holds every URL of S1 and S2 once and nothing else.
C7_SourcesAreUnion ==
    [][\A r \in 1..Len(runs) : \A o \in InsightsOutcomes :
          (o.ok /\ InsightsResponse(r, o)) =>
              /\ Elems(allSources') = Elems(runs[r].s1) \cup Elems(o.sources)
              /\ NoDuplicates(allSources')]_vars

\* C8: a start with empty text and no media changes nothing and creates no
\* invocation (so no request).
C8_EmptyStartIsNoOp ==
    [][(lastOp' = "analyze" /\ input = "" /\ file = NoFile) =>
          UNCHANGED <<input, file, session, runs>>]_vars

\* a start with empty input has just been handled while stage 2 of an
\* earlier sequence is still running
C8_Witness ==
    /\ lastOp = "analyze" /\ input = "" /\ file = NoFile
    /\ \E r \in 1..Len(runs) : InStage2(r)

\* C9: malformed citation metadata is never an error: a call whose response
\* arrived with text that is valid JSON after cleaning does not throw (except
\* stage 1 on the JSON value null, which has no profile to read).
C9_MetadataNeverFails ==
    (call.pc = "thrown" /\ call.reqs = 1 /\ call.resp.net = "ok"
        /\ JSONParse(CleanText(call.resp.text)).ok)
    => (call.stage = "profile" /\ GetThrows(JSONParse(CleanText(call.resp.text)).v))

\* C10: with no credential both client entry points throw the configuration
\* error before any media read or request, and every start records that
\* error in the session with both loading flags false.
C10_NoCredential ==
    /\ call.pc # "called" =>
          /\ call.pc = "thrown"
          /\ call.err = IF call.stage = "profile" THEN ErrKeyProfile ELSE ErrKeyInsights
          /\ call.reqs = 0 /\ call.reads = 0
    /\ \A r \in 1..Len(runs) :
          ~Live(r) /\ runs[r].reqP = 0 /\ runs[r].reqI = 0 /\ runs[r].reads = 0
    /\ runs # <<>> =>
          error = ErrKeyProfile /\ ~isAnalyzingProfile /\ ~isAnalyzingInsights

\* both entry points were called with a media file and a start was made
C10_Witness ==
    /\ runs # <<>> /\ file # NoFile /\ error = ErrKeyProfile
    /\ call.pc = "thrown" /\ call.stage = "insights" /\ call.file # NoFile

\* the messages the catch block of handleAnalyze can record
ErrorMessages == {ErrKeyProfile, ErrKeyInsights, ErrProfile, ErrInsights, ErrUnknown}

\* C11: every failure of a started sequence (configuration, encoding,
\* network, parse; stage 1 or stage 2) ends that invocation with its message
\* in the session error field and both loading flags false.
C11_ErrorsCaught ==
    [][(StartFails \/ \E r \in 1..Len(runs) : Stage1Fails(r) \/ Stage2Fails(r))
       => /\ error' \in ErrorMessages
          /\ error' # NoError
          /\ ~isAnalyzingProfile' /\ ~isAnalyzingInsights']_vars

\* a media read of stage 2 has failed after a profile was recorded
C11_Witness ==
    /\ lastOp = "settle" /\ error = ErrUnknown /\ Truthy(profileData)
    /\ \A r \in 1..Len(runs) : ~Live(r)

\* C12: no automatic retry: an invocation sends at most one profile request
\* and at most one insights request, and an invocation that has ended (failed
\* or completed) never runs again.
C12_NoRetry ==
    [][/\ \A r \in 1..Len(runs') : runs'[r].reqP <= 1 /\ runs'[r].reqI <= 1
       /\ \A r \in 1..Len(runs) : ~Live(r) => runs'[r] = runs[r]]_vars

\* a profile request has failed, nothing is in flight and the form is shown
C12_Witness ==
    /\ lastOp = "settle" /\ error = ErrProfile /\ runs # <<>>
    /\ \A r \in 1..Len(runs) : ~Live(r)
    /\ isIdle

\* C13: the profile is immutable once set: while the session holds a profile
\* value, a step that is neither a start nor a reset (a settling read or
\* request of any invocation) leaves it as it is.
C13_ProfileImmutable ==
    [][(Truthy(profileData) /\ lastOp' = "settle") => profileData' = profileData]_vars

\* C14: the exported record is the merged record of the session at export
\* time: its profile is the session profile, its sources are the accumulated
\* session sources, and every other member is the member of the session
\* insights, whatever members the insights record has.
C14_ExportIsMergedRecord ==
    lastOp = "export" =>
        /\ GetProp(ExportRecord, KProfile) = profileData
        /\ GetProp(ExportRecord, KSources) = JArr(allSources)
        /\ \A k \in DOMAIN Spread(insightsData) \ {KProfile, KSources} :
              GetProp(ExportRecord, k) = GetProp(insightsData, k)

\* C15: parseValue returns a finite number >= 0 for every text or absent
\* value, never NaN, and 0 for a text without any digit.
C15_ParseValueIsNumber ==
    view.pc = "returned" =>
        /\ ~view.out.nan
        /\ view.out.v >= 0
        /\ (~Truthy(view.str) \/ \A i \in 1..Len(view.str.s) : view.str.s[i] \notin Digits)
              => view.out = Num(0)

\* the largest parsed number of a row, 0 when none is positive
RowMax(row) ==
    LET nums == {row.vals[j].v : j \in {j \in 1..Len(row.vals) : ~row.vals[j].nan}} \cup {0}
    IN CHOOSE m \in nums : \A x \in nums : x <= m

\* C16: in every metric row each bar width is a number in 0..100, equal to
\* 100 * value / (largest value of the row), and 0 when that largest value
\* is 0; so a product holding a positive maximum has width 100.
C16_BarWidths ==
    view.pc = "rendered" =>
        \A k \in MetricKeys : \A i \in 1..Len(view.products) :
            LET row == view.rows[k]
                w == row.percents[i]
                m == RowMax(row)
            IN /\ ~w.nan
               /\ 0 <= w.n /\ w.n <= 100 * w.d
               /\ ~row.vals[i].nan =>
                     IF m > 0
                     THEN LET q == Frac(row.vals[i].v, m) IN w.n * q.d = 100 * q.n * w.d
                     ELSE w.n = 0

\* a response text with the fence marker (and its json word) removed at the
\* beginning and at the end only
StripEnds(s) ==
    LET t == Trim(s)
        a == IF Len(t) >= 2 /\ t[1] = FENCE /\ t[2] = JSONWORD THEN SubSeq(t, 3, Len(t))
             ELSE IF t # <<>> /\ t[1] = FENCE THEN Tail(t)
             ELSE t
        b == IF a # <<>> /\ a[Len(a)] = FENCE THEN SubSeq(a, 1, Len(a) - 1) ELSE a
    IN Trim(b)

\* C17: cleaning removes fence markers at the two ends only: when the text
\* between them is valid JSON, a call that returns has built its result from
\* the values of exactly that text (string values that hold a fence marker
\* included).
C17_OnlyOuterFencesStripped ==
    LET sent == JSONParse(StripEnds(call.resp.text))
    IN (call.pc = "returned" /\ sent.ok) =>
          call.value = IF call.stage = "profile"
                       THEN GetProp(sent.v, KProfile)
                       ELSE JObj(SetKey(Spread(sent.v), KSources, JArr(call.sources)))

\* C18: a request sent for a call with a media file carries two parts, the
\* prompt text and then the inline media with the file's payload and content
\* type; a request sent without media carries the text part alone.
C18_RequestParts ==
    call.reqs = 1 =>
        /\ Len(call.parts) = (IF call.file = NoFile THEN 1 ELSE 2)
        /\ call.parts[1].k = "text"
        /\ call.file # NoFile =>
              call.parts[2] = [k |-> "inlineData", mimeType |-> call.file.type,
                               data |-> call.file.data]

\* C19: insights are present only with a profile: no state has a null
\* profile together with non-null insights or a non-empty source list (so a
\* stage-2 response that settles after reset leaves the session as it is).
C19_InsightsOnlyWithProfile ==
    profileData = JNull => (insightsData = JNull /\ allSources = <<>>)

\* C20: the loading flags reflect the requests in flight: the profile flag
\* is true while a profile request is pending, the insights flag is true
\* while an insights request is pending, and with both flags false no
\* request is pending.
C20_FlagsReflectRequests ==
    \A r \in 1..Len(runs) :
        /\ runs[r].pc = "p_net" => isAnalyzingProfile
        /\ runs[r].pc = "i_net" => isAnalyzingInsights
        /\ (~isAnalyzingProfile /\ ~isAnalyzingInsights) => ~RequestPending(r)

\* C21: the profile-loading flag and the insights-loading flag are never
\* both true.
C21_FlagsNeverBothTrue == ~(isAnalyzingProfile /\ isAnalyzingInsights)

\* a start was accepted while stage 2 of an earlier sequence is still
\* running: the new sequence loads its profile
C21_Witness ==
    /\ lastOp = "analyze" /\ isAnalyzingProfile
    /\ \E r \in 1..Len(runs) : InStage2(r)
    /\ \E r \in 1..Len(runs) : InStage1(r)

\* both loading flags false, with insights recorded and no error (Complete)
\* or with an error (Errored)
Settled ==
    /\ ~isAnalyzingProfile /\ ~isAnalyzingInsights
    /\ \/ (insightsData # JNull /\ error = NoError)
       \/ error # NoError

\* C22: every accepted start whose reads and requests settle reaches a state
\* where the invocation has ended and the session is Complete or Errored
\* with both loading flags false.
C22_EveryStartSettles ==
    \A r \in 1..MaxRuns :
        (r <= Len(runs) /\ Live(r)) ~> (r <= Len(runs) /\ ~Live(r) /\ Settled)

\* a sequence has completed: insights recorded, no error, nothing in flight
C22_Witness ==
    /\ lastOp = "settle" /\ runs # <<>> /\ \A r \in 1..Len(runs) : ~Live(r)
    /\ Settled /\ insightsData # JNull /\ error = NoError /\ Truthy(profileData)

====
